---- MODULE Spec2Model ----
(***************************************************************************)
(* A model of the Game Boy core of src/main.rs: the MMU (address space     *)
(* router), the Z80 register file, and the GB harness that wires a         *)
(* cartridge image into the MMU and drives the fetch/execute cycle.        *)
(*                                                                         *)
(* Byte arrays ([u8; N], &[u8], Vec<u8>) are records [len, nz]: len is the *)
(* array length and nz maps the offsets that hold a non-zero byte to that  *)
(* byte; every other offset below len holds 0.  A Rust panic is a record   *)
(* [msg, args]: the panic message and the values formatted into it.        *)
(***************************************************************************)
EXTENDS Integers, Sequences, FiniteSets, TLC

VARIABLES
    z80,       \* GB.z80: the Z80 register file
    mmu,       \* GB.mmu: the MMU
    clockM,    \* GB.clockM
    clockT,    \* GB.clockT
    rom_data,  \* GB.rom_data: the cartridge image the harness refers to
    panic,     \* the panic that ended the process, NoPanic while it runs
    stage,     \* "start" before GB::new has returned, "running" after
    call,      \* the operation invoked last, with its arguments
    ret,       \* the value the last MMU::rb call returned
    executed,  \* history: how many NOP / LD instructions have completed
    writes     \* number of MMU::wb calls made (bounds the MMU specification)

vars == <<z80, mmu, clockM, clockT, rom_data, panic, stage, call, ret, executed, writes>>

----------------------------------------------------------------------------
(* Bounds of the model *)

MaxWrites == 1

----------------------------------------------------------------------------
(* Sizes and address ranges of the memory map *)

BiosSize == 256
BankSize == 16384
GraphicsSize == 8192
ExternalRamSize == 8192
RamSize == 8192
SpritesSize == 160
IoSize == 128
WorkRamSize == 128
MinRomLen == \h0150
U16 == 65536

NoByte == -1

----------------------------------------------------------------------------
(* Panics *)

NoPanic == [msg |-> "none", args |-> <<>>]
ReadNonExistent == [msg |-> "Trying to read non-existent memory", args |-> <<>>]
WriteNonExistent == [msg |-> "Trying to write non-existent memory", args |-> <<>>]
WriteBios == [msg |-> "Trying to write to non-writable memory - bios / bank 0", args |-> <<>>]
WriteBank0 == [msg |-> "Trying to write to non-writable memory - bank 0", args |-> <<>>]
WriteLoadedBank == [msg |-> "Trying to write to non-writable memory - loaded bank", args |-> <<>>]
NotImplemented == [msg |-> "not yet implemented: Instruction not implemented", args |-> <<>>]
ExpectedData == [msg |-> "Expected file to exist and have data", args |-> <<>>]
RangeEnd(end, len) == [msg |-> "range end index {} out of range for slice of length {}", args |-> <<end, len>>]
IndexOob(i, len) == [msg |-> "index out of bounds: the len is {} but the index is {}", args |-> <<len, i>>]
AddOverflow == [msg |-> "attempt to add with overflow", args |-> <<>>]

----------------------------------------------------------------------------
(* Byte arrays *)

Zeros(n) == [len |-> n, nz |-> [j \in {} |-> 0]]

\* the bytes of seq placed at offsets org, org+1, ...
At(org, seq) == [i \in org .. (org + Len(seq) - 1) |-> seq[i - org + 1]]

Get(arr, i) == IF i \in DOMAIN arr.nz THEN arr.nz[i] ELSE 0

\* arr[i] with Rust's bounds check
Index(arr, i) ==
    IF i < arr.len
    THEN [val |-> Get(arr, i), panic |-> NoPanic]
    ELSE [val |-> NoByte, panic |-> IndexOob(i, arr.len)]

\* Set storing v at i + 1 as well
SetSpill(arr, i, v) ==
    [arr EXCEPT !.nz =
        IF v = 0
        THEN [j \in (DOMAIN arr.nz) \ {i, i + 1} |-> arr.nz[j]]
        ELSE [j \in (DOMAIN arr.nz) \cup {i, i + 1} |-> IF j \in {i, i + 1} THEN v ELSE arr.nz[j]]]

\* arr[i] = v (i < arr.len)
Set(arr, i, v) ==
    [arr EXCEPT !.nz =
        IF v = 0
        THEN [j \in (DOMAIN arr.nz) \ {i} |-> arr.nz[j]]
        ELSE [j \in (DOMAIN arr.nz) \cup {i} |-> IF j = i THEN v ELSE arr.nz[j]]]

\* &arr[lo..hi] (hi <= arr.len)
Slice(arr, lo, hi) ==
    [len |-> hi - lo,
     nz  |-> [j \in {k - lo : k \in {k \in DOMAIN arr.nz : k >= lo /\ k < hi /\ arr.nz[k] # 0}}
                |-> arr.nz[j + lo]]]

----------------------------------------------------------------------------
(* MMU *)

MMUDefault ==
    [booted       |-> FALSE,
     bios         |-> Zeros(BiosSize),
     bank0        |-> Zeros(BankSize),
     loaded_bank  |-> Zeros(BankSize),
     graphics     |-> Zeros(GraphicsSize),
     external_ram |-> Zeros(ExternalRamSize),
     ram          |-> Zeros(RamSize),
     sprites      |-> Zeros(SpritesSize),
     io           |-> Zeros(IoSize),
     work_ram     |-> Zeros(WorkRamSize)]

\* BiosOrBank0 with the arms of the match exchanged
BiosSwapped(m) == IF m.booted THEN m.bios ELSE m.bank0

\* the region behind 0x0000-0x00ff: match self.booted { false => bios, true => bank0 }
BiosOrBank0(m) == IF m.booted THEN m.bank0 ELSE m.bios

\* RamIndex as an offset from the start of the region, like the other regions
RamIndexNoMirror(addr) == addr - \hc000

\* the index into ram of an address in 0xc000-0xfdff
RamIndex(addr) == addr % 8192

\* ReadUnmapped returning 0xff instead of panicking
ReadUnmappedOpenBus == [val |-> \hff, panic |-> NoPanic]

\* the 0xfea0-0xfeff arm of MMU::rb
ReadUnmapped == [val |-> NoByte, panic |-> ReadNonExistent]

\* MMU::rb: the byte read, or the panic that the read ends in
Rb(m, addr) ==
    CASE addr <= \h00ff -> Index(BiosOrBank0(m), addr - \h0000)
      [] addr >= \h0100 /\ addr <= \h3fff -> Index(m.bank0, addr - \h0000)
      [] addr >= \h4000 /\ addr <= \h7fff -> Index(m.loaded_bank, addr - \h4000)
      [] addr >= \h8000 /\ addr <= \h9fff -> Index(m.graphics, addr - \h8000)
      [] addr >= \ha000 /\ addr <= \hbfff -> Index(m.external_ram, addr - \ha000)
      [] addr >= \hc000 /\ addr <= \hfdff -> Index(m.ram, RamIndex(addr))
      [] addr >= \hfe00 /\ addr <= \hfe9f -> Index(m.sprites, addr - \hfe00)
      [] addr >= \hfea0 /\ addr <= \hfeff -> ReadUnmapped
      [] addr >= \hff00 /\ addr <= \hff7f -> Index(m.io, addr - \hff00)
      [] addr >= \hff80 /\ addr <= \hffff -> Index(m.work_ram, addr - \hff80)

\* Add16 on u8
Add16Byte(x, y, overflow_checks) ==
    [val   |-> (x + y) % 256,
     panic |-> IF overflow_checks /\ (x % 256) + y >= 256 THEN AddOverflow ELSE NoPanic]

\* x + y on u16: with overflow checks the addition panics, without it wraps
Add16(x, y, overflow_checks) ==
    [val   |-> (x + y) % U16,
     panic |-> IF overflow_checks /\ x + y >= U16 THEN AddOverflow ELSE NoPanic]

\* Compose16 with the bytes in the other order
Compose16LittleEndian(head, tail) == ((tail * 256) % U16) + head

\* (head << 8) | tail on u16, for head and tail below 256: the low byte of
\* head << 8 is zero, so the bitwise or is the sum
Compose16(head, tail) == ((head * 256) % U16) + tail

\* MMU::r2b: the word read, or the panic that the read ends in
R2b(m, addr, overflow_checks) ==
    LET head == Rb(m, addr)
        next == Add16(addr, 1, overflow_checks)
        tail == Rb(m, next.val)
    IN  IF head.panic # NoPanic THEN [val |-> NoByte, panic |-> head.panic]
        ELSE IF next.panic # NoPanic THEN [val |-> NoByte, panic |-> next.panic]
        ELSE IF tail.panic # NoPanic THEN [val |-> NoByte, panic |-> tail.panic]
        ELSE [val |-> Compose16(head.val, tail.val), panic |-> NoPanic]

\* Store switching the overlay as well
StoreTogglingBoot(m, f, i, val) ==
    IF i < m[f].len
    THEN [mmu |-> [m EXCEPT ![f] = Set(m[f], i, val), !.booted = ~@], panic |-> NoPanic]
    ELSE [mmu |-> m, panic |-> IndexOob(i, m[f].len)]

\* arr[i] = val with Rust's bounds check, as a new value of field f of m
Store(m, f, i, val) ==
    IF i < m[f].len
    THEN [mmu |-> [m EXCEPT ![f] = Set(m[f], i, val)], panic |-> NoPanic]
    ELSE [mmu |-> m, panic |-> IndexOob(i, m[f].len)]

\* MMU::wb: the MMU after the write, and the panic that the write ends in
Wb(m, addr, val) ==
    CASE addr <= \h00ff -> [mmu |-> m, panic |-> WriteBios]
      [] addr >= \h0100 /\ addr <= \h3fff -> [mmu |-> m, panic |-> WriteBank0]
      [] addr >= \h4000 /\ addr <= \h7fff -> [mmu |-> m, panic |-> WriteLoadedBank]
      [] addr >= \h8000 /\ addr <= \h9fff -> Store(m, "graphics", addr - \h8000, val)
      [] addr >= \ha000 /\ addr <= \hbfff -> Store(m, "external_ram", addr - \ha000, val)
      [] addr >= \hc000 /\ addr <= \hfdff -> Store(m, "ram", RamIndex(addr), val)
      [] addr >= \hfe00 /\ addr <= \hfe9f -> Store(m, "sprites", addr - \hfe00, val)
      [] addr >= \hfea0 /\ addr <= \hfeff -> [mmu |-> m, panic |-> WriteNonExistent]
      [] addr >= \hff00 /\ addr <= \hff7f -> Store(m, "io", addr - \hff00, val)
      [] addr >= \hff80 /\ addr <= \hffff -> Store(m, "work_ram", addr - \hff80, val)

----------------------------------------------------------------------------
(* Z80 *)

FlagsNone == 0

Z80Default ==
    [m |-> 0, t |-> 0,
     b |-> 0, a |-> 0, c |-> 0, d |-> 0, e |-> 0, h |-> 0, l |-> 0,
     f |-> FlagsNone, pc |-> 0, sp |-> 0]

----------------------------------------------------------------------------
(* GB *)

\* IncPc stepping backwards
IncPcBackwards(z, overflow_checks) ==
    IF overflow_checks /\ z.pc = 0
    THEN [z80 |-> z, panic |-> AddOverflow]
    ELSE [z80 |-> [z EXCEPT !.pc = (z.pc + U16 - 1) % U16], panic |-> NoPanic]

\* the tail of GB::run_instr: self.z80.pc += 1
IncPc(z, overflow_checks) ==
    LET n == Add16(z.pc, 1, overflow_checks)
    IN  IF n.panic # NoPanic
        THEN [z80 |-> z, panic |-> n.panic]
        ELSE [z80 |-> [z EXCEPT !.pc = n.val], panic |-> NoPanic]

\* the 0x01 arm of GB::run_instr
LdBC(z, m, overflow_checks) ==
    LET lo == Rb(m, z.pc)
        z1 == [z EXCEPT !.c = lo.val]
        a1 == Add16(z.pc, 1, overflow_checks)
        hi == Rb(m, a1.val)
        z2 == [z1 EXCEPT !.b = hi.val]
    IN  IF lo.panic # NoPanic THEN [z80 |-> z, panic |-> lo.panic]
        ELSE IF a1.panic # NoPanic THEN [z80 |-> z1, panic |-> a1.panic]
        ELSE IF hi.panic # NoPanic THEN [z80 |-> z1, panic |-> hi.panic]
        ELSE [z80 |-> [z2 EXCEPT !.m = 3, !.t = 12], panic |-> NoPanic]

\* Nop setting a bit of the low nibble of f
NopLowFlag(z) == [z80 |-> [z EXCEPT !.m = 1, !.t = 4, !.f = 1], panic |-> NoPanic]

\* the 0x00 arm of GB::run_instr
Nop(z) == [z80 |-> [z EXCEPT !.m = 1, !.t = 4], panic |-> NoPanic]

\* Todo with pc already moved past the opcode
TodoAfterFetch(z) == [z80 |-> [z EXCEPT !.pc = (z.pc + 1) % U16], panic |-> NotImplemented]

\* the catch-all arm of GB::run_instr: todo!
Todo(z) == [z80 |-> z, panic |-> NotImplemented]

\* RunInstr with the arm of 0x01 for 0x00 as well
RunInstrNopLoads(z, m, instr, overflow_checks) ==
    LET arm == CASE instr = \h00 -> LdBC(z, m, overflow_checks)
                 [] instr = \h01 -> LdBC(z, m, overflow_checks)
                 [] OTHER -> Todo(z)
    IN  IF arm.panic # NoPanic THEN arm ELSE IncPc(arm.z80, overflow_checks)

\* GB::run_instr: the register file afterwards, and the panic it ends in
RunInstr(z, m, instr, overflow_checks) ==
    LET arm == CASE instr = \h00 -> Nop(z)
                 [] instr = \h01 -> LdBC(z, m, overflow_checks)
                 [] OTHER -> Todo(z)
    IN  IF arm.panic # NoPanic THEN arm ELSE IncPc(arm.z80, overflow_checks)

\* GB::new: the machine it builds, and the panic it ends in
New(rom) ==
    IF BankSize > rom.len
    THEN [z80 |-> Z80Default, mmu |-> MMUDefault, clockM |-> 0, clockT |-> 0,
          rom_data |-> rom, panic |-> RangeEnd(BankSize, rom.len)]
    ELSE [z80 |-> Z80Default,
          mmu |-> [MMUDefault EXCEPT !.bank0 = Slice(rom, 0, BankSize)],
          clockM |-> 0, clockT |-> 0,
          rom_data |-> rom, panic |-> NoPanic]

\* LoadRomResult building the MMU anew, as GB::new does
LoadRomResultReset(m, rom) ==
    IF BankSize > rom.len
    THEN [rom_data |-> rom, mmu |-> m, panic |-> RangeEnd(BankSize, rom.len)]
    ELSE [rom_data |-> rom, mmu |-> [MMUDefault EXCEPT !.bank0 = Slice(rom, 0, BankSize)],
          panic |-> NoPanic]

\* GB::load_rom: the image and the MMU afterwards, and the panic it ends in
LoadRomResult(m, rom) ==
    IF BankSize > rom.len
    THEN [rom_data |-> rom, mmu |-> m, panic |-> RangeEnd(BankSize, rom.len)]
    ELSE [rom_data |-> rom, mmu |-> [m EXCEPT !.bank0 = Slice(rom, 0, BankSize)],
          panic |-> NoPanic]

\* AddClocks with m and t exchanged
AddClocksSwapped(cm, ct, z) == [clockM |-> cm + z.t, clockT |-> ct + z.m]

\* the tail of GB::cycle: the clocks after adding the last instruction's cost
AddClocks(cm, ct, z) == [clockM |-> cm + z.m, clockT |-> ct + z.t]

\* GB::cycle: registers and clocks afterwards, the opcode fetched, and the
\* panic it ends in
CycleResult(z, m, cm, ct, overflow_checks) ==
    LET fetch == Rb(m, z.pc)
        run   == RunInstr(z, m, fetch.val, overflow_checks)
    IN  IF fetch.panic # NoPanic
        THEN [z80 |-> z, clockM |-> cm, clockT |-> ct, instr |-> NoByte, panic |-> fetch.panic]
        ELSE IF run.panic # NoPanic
        THEN [z80 |-> run.z80, clockM |-> cm, clockT |-> ct, instr |-> fetch.val, panic |-> run.panic]
        ELSE [z80 |-> run.z80,
              clockM |-> AddClocks(cm, ct, run.z80).clockM,
              clockT |-> AddClocks(cm, ct, run.z80).clockT,
              instr |-> fetch.val, panic |-> NoPanic]

----------------------------------------------------------------------------
(* Inputs *)

\* an image of len bytes, all zero but for seq at offset org
Image(len, org, seq) ==
    [len |-> len,
     nz  |-> [i \in {k \in DOMAIN At(org, seq) : At(org, seq)[k] # 0} |-> At(org, seq)[i]]]

\* an image with the bytes of nz added to img
Patch(img, nz) == [img EXCEPT !.nz = nz @@ img.nz]

\* images shorter than the header, of exactly the header's length, of one bank
\* and longer; every image of a bank or more has an opcode without an arm at
\* 0x0105 at the latest, so that a run ends there
RomTiny == Image(100, 0, <<>>)
RomNoHeader == Image(MinRomLen - 1, \h0100, <<\h01, \h34, \h12>>)
RomHeader == Image(MinRomLen, \h0100, <<\h01, \h34, \h12>>)
RomLd == Image(BankSize, \h0100, <<\h01, \h34, \h12, \h00, \h00, \hd3>>)
RomNop == Patch(Image(2 * BankSize, \h0100, <<\h00, \h01, \h01, \h00, \h01, \hd3>>),
                (\h0050 :> \h77) @@ (\h00ff :> \h01) @@ (\h3fff :> \h3f) @@ (\h4000 :> \h40))
RomHalt == Patch(Image(BankSize + 1, \h0100, <<\h00, \h00, \hfe, \h00, \h00, \hd3>>),
                 (\h0000 :> \hc3))

Roms == {RomTiny, RomNoHeader, RomHeader, RomLd, RomNop, RomHalt}

\* the bios of MMU::default, and a bios with bytes that differ from the images
BiosZero == Zeros(BiosSize)
BiosBoot == [len |-> BiosSize, nz |-> (\h0000 :> \h31) @@ (\h0050 :> \h50) @@ (\h00ff :> \h01)]

\* the addresses and values of the MMU calls
ReadAddrs == {\h0050, \h0100, \hc000, \he000, \hfea0}

WriteAddrs == {\h0050, \hc000, \he000, \hfdff, \hfea0}

Vals == {\h34}

----------------------------------------------------------------------------
(* The harness: main builds the machine and cycles it; load_rom replaces   *)
(* the cartridge image                                                     *)

NoCall == [op |-> "none", addr |-> 0, val |-> 0, len |-> 0]
NoRet == [val |-> NoByte, panic |-> NoPanic]

Init ==
    /\ z80 = Z80Default
    /\ mmu = MMUDefault
    /\ clockM = 0
    /\ clockT = 0
    /\ rom_data = Zeros(0)
    /\ panic = NoPanic
    /\ stage = "start"
    /\ call = NoCall
    /\ ret = NoRet
    /\ executed = [nop |-> 0, ld |-> 0]
    /\ writes = 0

\* main: the assertion on the image read, then GB::new
Main(rom) ==
    /\ stage = "start"
    /\ panic = NoPanic
    /\ call' = [op |-> "new", addr |-> 0, val |-> 0, len |-> rom.len]
    /\ IF ~(rom.len > \h014f)
       THEN /\ panic' = ExpectedData
            /\ UNCHANGED <<z80, mmu, clockM, clockT, rom_data, stage>>
       ELSE LET gb == New(rom)
            IN  IF gb.panic # NoPanic
                THEN /\ panic' = gb.panic
                     /\ UNCHANGED <<z80, mmu, clockM, clockT, rom_data, stage>>
                ELSE /\ z80' = gb.z80
                     /\ mmu' = gb.mmu
                     /\ clockM' = gb.clockM
                     /\ clockT' = gb.clockT
                     /\ rom_data' = gb.rom_data
                     /\ stage' = "running"
                     /\ UNCHANGED panic
    /\ UNCHANGED <<ret, executed, writes>>

LoadRom(rom) ==
    /\ stage = "running"
    /\ panic = NoPanic
    /\ call' = [op |-> "load_rom", addr |-> 0, val |-> 0, len |-> rom.len]
    /\ LET r == LoadRomResult(mmu, rom)
       IN  /\ rom_data' = r.rom_data
           /\ mmu' = r.mmu
           /\ panic' = r.panic
    /\ UNCHANGED <<z80, clockM, clockT, stage, ret, executed, writes>>

Cycle ==
    /\ stage = "running"
    /\ panic = NoPanic
    /\ \E overflow_checks \in BOOLEAN :
         LET r == CycleResult(z80, mmu, clockM, clockT, overflow_checks)
         IN  /\ z80' = r.z80
             /\ clockM' = r.clockM
             /\ clockT' = r.clockT
             /\ panic' = r.panic
             /\ call' = [op |-> "cycle", addr |-> z80.pc, val |-> r.instr, len |-> 0]
             /\ executed' = IF r.panic # NoPanic THEN executed
                            ELSE IF r.instr = \h00
                            THEN [executed EXCEPT !.nop = @ + 1]
                            ELSE [executed EXCEPT !.ld = @ + 1]
    /\ UNCHANGED <<mmu, rom_data, stage, ret, writes>>

Next ==
    \/ \E rom \in Roms : Main(rom)
    \/ \E rom \in Roms : LoadRom(rom)
    \/ Cycle

Spec == Init /\ [][Next]_vars

----------------------------------------------------------------------------
(* The MMU on its own: rb and wb applied to an MMU value                   *)

InitMMU ==
    /\ \E rom \in {RomNop}, booted \in BOOLEAN, bios \in {BiosZero, BiosBoot} :
         /\ rom_data = rom
         /\ mmu = [MMUDefault EXCEPT !.booted = booted, !.bios = bios,
                                     !.bank0 = Slice(rom, 0, BankSize)]
    /\ z80 = Z80Default
    /\ clockM = 0
    /\ clockT = 0
    /\ panic = NoPanic
    /\ stage = "running"
    /\ call = NoCall
    /\ ret = NoRet
    /\ executed = [nop |-> 0, ld |-> 0]
    /\ writes = 0

Read(addr) ==
    /\ stage = "running"
    /\ panic = NoPanic
    /\ call' = [op |-> "rb", addr |-> addr, val |-> 0, len |-> 0]
    /\ ret' = Rb(mmu, addr)
    /\ panic' = Rb(mmu, addr).panic
    /\ UNCHANGED <<z80, mmu, clockM, clockT, rom_data, stage, executed, writes>>

Write(addr, val) ==
    /\ stage = "running"
    /\ panic = NoPanic
    /\ writes < MaxWrites
    /\ writes' = writes + 1
    /\ call' = [op |-> "wb", addr |-> addr, val |-> val, len |-> 0]
    /\ mmu' = Wb(mmu, addr, val).mmu
    /\ panic' = Wb(mmu, addr, val).panic
    /\ UNCHANGED <<z80, clockM, clockT, rom_data, stage, ret, executed>>

NextMMU ==
    \/ \E addr \in ReadAddrs : Read(addr)
    \/ \E addr \in WriteAddrs, val \in Vals : Write(addr, val)

SpecMMU == InitMMU /\ [][NextMMU]_vars

----------------------------------------------------------------------------
(* The harness with the MMU calls: reads and writes between the cycles     *)

ApiRoms == {RomTiny, RomLd, RomNop}

ApiAddrs == {\h0050, \h4000, \h8000, \he000, \hfea0}

NextAPI ==
    \/ \E rom \in ApiRoms : Main(rom)
    \/ \E rom \in ApiRoms : LoadRom(rom)
    \/ Cycle
    \/ \E addr \in ApiAddrs : Read(addr)
    \/ \E addr \in ApiAddrs, val \in Vals : Write(addr, val)

SpecAPI == Init /\ [][NextAPI]_vars

----------------------------------------------------------------------------
(* The same operations on a machine whose booted flag is set: no code of   *)
(* the program sets it, so it is an input here                             *)

InitBoot ==
    /\ \E rom \in {RomLd, RomNop} :
         /\ rom_data = rom
         /\ mmu = [New(rom).mmu EXCEPT !.booted = TRUE]
    /\ z80 = Z80Default
    /\ clockM = 0
    /\ clockT = 0
    /\ panic = NoPanic
    /\ stage = "running"
    /\ call = NoCall
    /\ ret = NoRet
    /\ executed = [nop |-> 0, ld |-> 0]
    /\ writes = 0

SpecBoot == (Init \/ InitBoot) /\ [][NextAPI]_vars

----------------------------------------------------------------------------
(* The cycle loop of main on its own, on images that let it run on         *)

\* two banks of zeros but for a load in the last two bytes of bank 0 and bytes
\* in the second bank
RomEdge == Patch(Image(2 * BankSize, \h3ffe, <<\h01, \h01>>),
                 (\h4000 :> \h7f) @@ (\h7fff :> \h01))

RunRoms == {RomTiny, RomLd, RomEdge}

NextRun ==
    \/ \E rom \in RunRoms : Main(rom)
    \/ Cycle

SpecRun == Init /\ [][NextRun]_vars

\* main runs GB::new and then loops on gb.cycle() without end
SpecRunFair == SpecRun /\ WF_vars(\E rom \in RunRoms : Main(rom)) /\ WF_vars(Cycle)

----------------------------------------------------------------------------
(* The MMU of a machine built by GB::new, under rb, r2b and wb calls at    *)
(* the ends of every region                                                *)

RouterAddrs == {\h00ff, \h0100, \h0104, \h3fff, \h4000, \h7fff, \h8000, \h9fff, \ha000, \hbfff,
                \hc000, \hdfff, \he000, \hfdff, \hfe00, \hfe9f, \hfea0, \hfeff, \hff00,
                \hff7f, \hff80, \hffff}

RouterVals == {\h00, \h34, \hff}

InitRouter ==
    /\ rom_data = RomNop
    /\ mmu = New(RomNop).mmu
    /\ z80 = Z80Default
    /\ clockM = 0
    /\ clockT = 0
    /\ panic = NoPanic
    /\ stage = "running"
    /\ call = NoCall
    /\ ret = NoRet
    /\ executed = [nop |-> 0, ld |-> 0]
    /\ writes = 0

Read16(addr) ==
    /\ stage = "running"
    /\ panic = NoPanic
    /\ call' = [op |-> "r2b", addr |-> addr, val |-> 0, len |-> 0]
    /\ \E overflow_checks \in BOOLEAN :
         /\ ret' = R2b(mmu, addr, overflow_checks)
         /\ panic' = R2b(mmu, addr, overflow_checks).panic
    /\ UNCHANGED <<z80, mmu, clockM, clockT, rom_data, stage, executed, writes>>

NextRouter ==
    \/ \E addr \in RouterAddrs : Read(addr)
    \/ \E addr \in RouterAddrs : Read16(addr)
    \/ \E addr \in RouterAddrs, val \in RouterVals : Write(addr, val)

SpecRouter == InitRouter /\ [][NextRouter]_vars

----------------------------------------------------------------------------
(* The error conditions of the specification, as the panics of the code    *)

\* UnimplementedOpcode carrying the opcode and the pc at fault
UnimplementedOpcode(opcode, pc) == [msg |-> NotImplemented.msg, args |-> <<opcode, pc>>]

\* UnmappedAccess
UnmappedAccess == {ReadNonExistent, WriteNonExistent}

\* CartridgeTooSmall: the assertion of main on the length of the image
CartridgeTooSmall == ExpectedData

Unmapped == \hfea0 .. \hfeff

\* the last operation was a cycle that completed
CycleDone == call.op = "cycle" /\ panic = NoPanic

\* the byte that a read of addr returns in the current state
Byte(addr) == Rb(mmu, addr).val

\* ReadOnlyViolation: the three panics of wb below 0x8000
ReadOnlyViolation == {WriteBios, WriteBank0, WriteLoadedBank}

\* the fields of the MMU that wb can store into
Writable == {"graphics", "external_ram", "ram", "sprites", "io", "work_ram"}

----------------------------------------------------------------------------
(* Properties *)

\* C1: after executing opcode 0x01 fetched at p, C is the byte at p+1 and B
\* the byte at p+2, and the step costs (3, 12).
C1_LoadFromFollowingBytes ==
    (CycleDone /\ call.val = \h01) =>
        /\ z80.c = Byte(call.addr + 1)
        /\ z80.b = Byte(call.addr + 2)
        /\ z80.m = 3
        /\ z80.t = 12

\* C2: a completed cycle advances pc by the encoded length of the instruction
\* it executed: 1 for opcode 0x00, 3 for opcode 0x01.
C2_PcAdvancesByLength ==
    CycleDone => z80.pc = call.addr + (IF call.val = \h00 THEN 1 ELSE 3)

\* C3: a completed cycle leaves the fixed cost of the fetched opcode in m/t,
\* the totals are 1 and 4 per NOP executed plus 3 and 12 per LD executed, and
\* the clock total is four times the machine total.
C3_CycleAccounting ==
    /\ CycleDone => <<z80.m, z80.t>> = (IF call.val = \h00 THEN <<1, 4>> ELSE <<3, 12>>)
    /\ clockM = 1 * executed.nop + 3 * executed.ld
    /\ clockT = 4 * executed.nop + 12 * executed.ld
    /\ clockT = 4 * clockM

C3_Witness ==
    /\ CycleDone
    /\ call.val = \h01
    /\ executed.nop > 256
    /\ executed.ld > 1

\* C4: a cycle that fetched an opcode other than 0x00 and 0x01 halts with an
\* UnimplementedOpcode condition carrying that opcode and the pc of the fetch.
C4_FaultCarriesOpcodeAndPc ==
    (call.op = "cycle" /\ call.val \notin {NoByte, \h00, \h01}) =>
        panic = UnimplementedOpcode(call.val, call.addr)

\* C5: a cycle whose fetched opcode is neither 0x00 nor 0x01 changes no
\* register, counter, total or memory region.
C5_FaultLeavesState ==
    [][(/\ panic = NoPanic
        /\ call'.op = "cycle"
        /\ Rb(mmu, z80.pc).panic = NoPanic
        /\ Rb(mmu, z80.pc).val \notin {\h00, \h01})
       => (/\ z80' = z80
           /\ mmu' = mmu
           /\ clockM' = clockM
           /\ clockT' = clockT)]_vars

C5_Witness ==
    /\ call.op = "cycle"
    /\ call.val = \hd3
    /\ panic = NotImplemented
    /\ executed.ld > 0

\* C6: building or reloading fails with CartridgeTooSmall exactly when the
\* image is shorter than 0x0150 bytes; every longer image is installed.
C6_TooSmallExactlyBelowHeader ==
    (call.op \in {"new", "load_rom"}) =>
        /\ panic = CartridgeTooSmall <=> call.len < MinRomLen
        /\ call.len >= MinRomLen =>
              (panic = NoPanic /\ stage = "running" /\ rom_data.len = call.len)

\* C7: a reload that fails on an image shorter than 0x0150 bytes leaves the
\* stored image, the bank-0 view and all other state as they were.
C7_FailedReloadInstallsNothing ==
    [][(call'.op = "load_rom" /\ call'.len < MinRomLen /\ panic' # NoPanic)
       => (/\ rom_data' = rom_data
           /\ mmu' = mmu
           /\ z80' = z80
           /\ clockM' = clockM
           /\ clockT' = clockT)]_vars

\* C8: a read of 0x0000-0x00FF returns the boot-firmware byte while the boot
\* overlay is active and the bank-0 byte once it is not; a read of
\* 0x0100-0x3FFF returns the bank-0 byte whatever the boot flag.
C8_BootOverlay ==
    /\ \A a \in \h0000 .. \h00ff :
         Rb(mmu, a) = [val   |-> IF mmu.booted THEN Get(mmu.bank0, a) ELSE Get(mmu.bios, a),
                       panic |-> NoPanic]
    /\ \A a \in \h0100 .. \h3fff :
         Rb(mmu, a) = [val |-> Get(mmu.bank0, a), panic |-> NoPanic]
    /\ (call.op = "rb" /\ call.addr <= \h00ff) =>
         ret.val = (IF mmu.booted THEN Get(mmu.bank0, call.addr) ELSE Get(mmu.bios, call.addr))

C8_Witness ==
    /\ call.op = "rb"
    /\ call.addr = \h0050
    /\ ~mmu.booted
    /\ ret.val = \h50
    /\ Get(mmu.bank0, \h0050) = \h77

\* C9: after any writes, a read of a in 0xC000-0xFDFF equals the read of
\* 0xC000 + (a - 0xC000) mod 8192.
C9_RamMirror ==
    \A a \in \hc000 .. \hfdff :
        Rb(mmu, a) = Rb(mmu, \hc000 + ((a - \hc000) % 8192))

C9_Witness ==
    /\ call.op = "wb"
    /\ call.addr = \he000
    /\ panic = NoPanic
    /\ Byte(\hc000) = \h34
    /\ Byte(\he000) = \h34

\* C10: a read or a write of an address in 0xFEA0-0xFEFF ends in an
\* UnmappedAccess fault, returns no byte and modifies no region; a read of
\* any other address does not end in UnmappedAccess.
C10_UnmappedRange ==
    /\ \A a \in Unmapped :
         /\ Rb(mmu, a).panic \in UnmappedAccess
         /\ Rb(mmu, a).val = NoByte
         /\ \A v \in Vals \cup {\h00, \hff} :
              /\ Wb(mmu, a, v).panic \in UnmappedAccess
              /\ Wb(mmu, a, v).mmu = mmu
    /\ \A a \in (\h0000 .. \hffff) \ Unmapped :
         Rb(mmu, a).panic \notin UnmappedAccess
    /\ (call.op \in {"rb", "wb"} /\ call.addr \in Unmapped) => panic \in UnmappedAccess
    /\ (call.op = "rb" /\ call.addr \notin Unmapped) => panic \notin UnmappedAccess

C10_Witness ==
    /\ call.op = "rb"
    /\ call.addr = \hfea0
    /\ panic = ReadNonExistent
    /\ ret.val = NoByte

\* C11: a write to an address in 0x0000-0x7FFF fails with ReadOnlyViolation,
\* and in every state of a running machine bank 0 and the switched bank hold
\* the bytes of the loaded image and the boot firmware is as it was built.
C11_ReadOnlyBanks ==
    /\ (call.op = "wb" /\ call.addr <= \h7fff) => panic \in ReadOnlyViolation
    /\ (stage = "running" /\ (panic = NoPanic \/ call.op \in {"rb", "wb", "cycle"})) =>
          /\ mmu.bios = MMUDefault.bios
          /\ mmu.bank0 = Slice(rom_data, 0, BankSize)
          /\ rom_data.len >= 2 * BankSize =>
                mmu.loaded_bank = Slice(rom_data, BankSize, 2 * BankSize)

\* C12: after an image is installed, its bytes 0x0000-0x3FFF are bank 0 and,
\* when it has 0x8000 bytes or more, a read of every address a in
\* 0x4000-0x7FFF returns byte a of the image.
C12_ImageBacksBanks ==
    (stage = "running" /\ panic = NoPanic /\ call.op \in {"new", "load_rom"}) =>
        /\ mmu.bank0 = Slice(rom_data, 0, BankSize)
        /\ rom_data.len >= 2 * BankSize =>
              \A a \in \h4000 .. \h7fff : Rb(mmu, a) = [val |-> Get(rom_data, a), panic |-> NoPanic]

\* addresses of the first and the last bytes of bank 0 above the bios
ReloadProbes == (\h0100 .. \h0107) \cup {\h3ffe, \h3fff}

\* C13: a reload that succeeds makes bank 0 the first 0x4000 bytes of the new
\* image, so that reads in 0x0100-0x3FFF return them, and leaves every
\* register, the clocks, the booted flag and every other region as they were.
C13_ReloadOnlyBank0 ==
    [][(call'.op = "load_rom" /\ panic' = NoPanic) =>
          /\ mmu'.bank0 = Slice(rom_data', 0, BankSize)
          /\ \A a \in ReloadProbes :
                Rb(mmu', a) = [val |-> Get(rom_data', a), panic |-> NoPanic]
          /\ z80' = z80
          /\ clockM' = clockM
          /\ clockT' = clockT
          /\ \A f \in (DOMAIN mmu) \ {"bank0"} : mmu'[f] = mmu[f]]_vars

C13_Witness ==
    /\ call.op = "load_rom"
    /\ panic = NoPanic
    /\ rom_data = RomLd
    /\ z80.pc > \h0101
    /\ z80.b # 0
    /\ clockM > 0
    /\ mmu.ram # MMUDefault.ram
    /\ Byte(\h0101) = \h34

\* the other address of the byte of working RAM that rb and wb use for addr
Mirror(addr) ==
    IF addr >= \hc000 /\ addr <= \hddff THEN addr + RamSize
    ELSE IF addr >= \he000 /\ addr <= \hfdff THEN addr - RamSize
    ELSE addr

\* addr and its neighbours
Near(addr) == {addr - 1, addr, addr + 1} \cap (0 .. U16 - 1)

\* the addresses that the calls use and where the image has bytes other than
\* zero, with their mirrors and the neighbours of both
Probes ==
    UNION {Near(b) \cup Near(Mirror(b)) : b \in RouterAddrs \cup DOMAIN RomNop.nz}

\* C14: for addr in 0x0000-0xFFFE with addr and addr+1 readable, r2b(addr) is
\* rb(addr) * 256 + rb(addr+1), whatever the build does on overflow, and a call
\* of r2b leaves the MMU as it was.
C14_Read16BigEndian ==
    /\ [](\A addr \in Probes \ {\hffff} :
            (Rb(mmu, addr).panic = NoPanic /\ Rb(mmu, addr + 1).panic = NoPanic) =>
                \A overflow_checks \in BOOLEAN :
                    R2b(mmu, addr, overflow_checks) =
                        [val |-> Byte(addr) * 256 + Byte(addr + 1), panic |-> NoPanic])
    /\ []((call.op = "r2b" /\ call.addr < \hffff /\ panic = NoPanic) =>
            ret.val = Byte(call.addr) * 256 + Byte(call.addr + 1))
    /\ [][call'.op = "r2b" => mmu' = mmu]_vars

C14_Witness ==
    /\ call.op = "r2b"
    /\ call.addr = \h0104
    /\ ret = [val |-> \h01d3, panic |-> NoPanic]
    /\ writes > 0

\* a and b are the same byte of working RAM
Alias(a, b) ==
    /\ a >= \hc000 /\ a <= \hfdff
    /\ b >= \hc000 /\ b <= \hfdff
    /\ a % 8192 = b % 8192

\* C19: wb(a, v) at every a in 0x8000-0xFE9F and 0xFF00-0xFFFF succeeds; after
\* it rb(a) returns v, and rb(b) returns what it returned before for every
\* readable b that is neither a nor a mirror alias of a; the regions that are
\* not writable are as they were.
C19_WriteReadRoundTrip ==
    [][(call'.op = "wb" /\ call'.addr >= \h8000 /\ call'.addr \notin Unmapped) =>
          /\ panic' = NoPanic
          /\ Rb(mmu', call'.addr) = [val |-> call'.val, panic |-> NoPanic]
          /\ \A b \in Probes :
                (Rb(mmu, b).panic = NoPanic /\ b # call'.addr /\ ~Alias(call'.addr, b)) =>
                    Rb(mmu', b) = Rb(mmu, b)
          /\ \A f \in (DOMAIN mmu) \ Writable : mmu'[f] = mmu[f]]_vars

C19_Witness ==
    /\ call = [op |-> "wb", addr |-> \hfdff, val |-> \hff, len |-> 0]
    /\ panic = NoPanic
    /\ Byte(\hfdff) = \hff
    /\ Byte(\hddff) = \hff
    /\ Byte(\hfdfe) = 0

\* C15: a machine that has just been built has the boot overlay active
\* (booted is false), and no cycle, read, write or reload makes the overlay
\* active again once it is inactive (booted is true).
C15_BootOneWay ==
    /\ []((call.op = "new" /\ stage = "running") => ~mmu.booted)
    /\ [][mmu.booted => mmu'.booted]_vars

C15_Witness ==
    /\ mmu.booted
    /\ call.op = "load_rom"
    /\ panic = NoPanic
    /\ writes > 0
    /\ executed.nop > 0

\* C16: in every state the flag byte has no bit of its low nibble set.
C16_FlagLowNibbleZero ==
    /\ z80.f \in 0 .. 255
    /\ z80.f % 16 = 0

C16_Witness ==
    /\ CycleDone
    /\ executed.nop > 256
    /\ executed.ld > 0
    /\ z80.b # 0
    /\ z80.f = FlagsNone

\* C17: a completed cycle that fetched opcode 0x00 changes pc, m and t of the
\* registers and the clocks only: the eight registers, the flags, sp, the
\* booted flag and every memory region are as before.
C17_NopZeroEffect ==
    [][(call'.op = "cycle" /\ call'.val = \h00 /\ panic' = NoPanic) =>
          /\ z80' = [z80 EXCEPT !.pc = z80'.pc, !.m = z80'.m, !.t = z80'.t]
          /\ mmu' = mmu
          /\ rom_data' = rom_data]_vars

C17_Witness ==
    /\ CycleDone
    /\ call.val = \h00
    /\ z80.c # 0
    /\ executed.ld > 1
    /\ mmu.ram # MMUDefault.ram

\* C18 as claimed: the cycle loop halts on an opcode without an arm only, and
\* every cycle that fetched 0x00 or 0x01 completes.
C18_OnlyUnimplementedHalts ==
    /\ (call.op = "cycle" /\ panic # NoPanic) =>
          (panic = NotImplemented /\ call.val \notin {NoByte, \h00, \h01})
    /\ (call.op = "cycle" /\ call.val \in {\h00, \h01}) => panic = NoPanic

\* C18 as amended: a cycle of a run from power-on halts on an opcode without an
\* arm or on the fetch at pc = 0xFEA0, which is an UnmappedAccess, and in no
\* other way; every cycle that fetched 0x00 or 0x01 completes.
C18_HaltTriggers ==
    /\ (call.op = "cycle" /\ panic # NoPanic) =>
          \/ panic = NotImplemented /\ call.val \notin {NoByte, \h00, \h01}
          \/ panic = ReadNonExistent /\ call.addr = \hfea0 /\ call.val = NoByte
    /\ (call.op = "cycle" /\ call.val \in {\h00, \h01}) => panic = NoPanic

C18_Witness ==
    /\ call.op = "cycle"
    /\ panic = ReadNonExistent
    /\ z80.pc = \hfea0
    /\ executed.ld = 2

\* C20: pc never exceeds 0xFEA0 and never decreases, a completed cycle adds 1
\* to pc and leaves the MMU with its booted flag as it was, and the loop of
\* main stops in the end: on the assertions on the image, on an opcode without
\* an arm or on a read of the unmapped range.
C20_CycleLoopHalts ==
    /\ [](z80.pc <= \hfea0)
    /\ [][z80'.pc >= z80.pc]_vars
    /\ [][(call'.op = "cycle" /\ panic' = NoPanic) =>
            (z80'.pc = z80.pc + 1 /\ mmu' = mmu)]_vars
    /\ <>(\/ call.op = "new" /\ panic # NoPanic
          \/ call.op = "cycle" /\ panic \in {NotImplemented, ReadNonExistent})

C20_Witness ==
    /\ call.op = "cycle"
    /\ panic = ReadNonExistent
    /\ z80.pc = \hfea0
    /\ executed = [nop |-> \hfea0 - 2, ld |-> 2]
    /\ clockT = 4 * (\hfea0 + 4)
    /\ mmu = New(RomEdge).mmu

====
